---- MODULE Spec2Model ----
(***************************************************************************)
(* Model of the simulation store (state/useSimStore), the trajectory       *)
(* function (lib/kinematics simplePathAtTime) and the two drivers of the   *)
(* store: the ControlPanel animation-frame loop (tick) and the Asteroid    *)
(* frame callback (setImpactLatLon).                                       *)
(*                                                                         *)
(* Numbers.  The program computes in IEEE doubles; the model computes in   *)
(* integers with fixed units:                                              *)
(*   time, duration, dt, leadTime      seconds                             *)
(*   size m, speed km/s, density kg/m3, approachAngle degrees              *)
(*   mitigationPower                   percent (0.5 is 50)                 *)
(*   energyTNT                         tenths of a megaton TNT             *)
(*   craterKm, blastKm, seismicKm, tsunamiKm   tenths of a kilometre       *)
(*   impactLat, impactLon              thousandths of a degree             *)
(* Every division truncates toward zero (Quot), so that the result keeps   *)
(* the sign the floating-point computation gives.                          *)
(***************************************************************************)
EXTENDS Integers, Sequences, FiniteSets, TLC

VARIABLES store, lastOp, probe, ui

vars == <<store, lastOp, probe, ui>>

(***************************************************************************)
(* Bounds of the model.                                                    *)
(***************************************************************************)
\* tick is explored only while time + dt stays at or above -TimeFloor.
TimeFloor == 120

(***************************************************************************)
(* Arithmetic helpers.                                                     *)
(***************************************************************************)
Min(a, b) == IF a <= b THEN a ELSE b

Max(a, b) == IF a >= b THEN a ELSE b

\* a / b on doubles, truncated toward zero (b > 0).
Quot(a, b) == IF a >= 0 THEN a \div b ELSE -((-a) \div b)

\* JavaScript's a % b: the remainder has the sign of the dividend.
JsRem(a, b) == a - b * Quot(a, b)

RECURSIVE CbrtIn(_, _, _)
\* The k in lo..hi with k^3 <= x < (k+1)^3, by bisection.
CbrtIn(x, lo, hi) ==
    IF lo >= hi THEN lo
    ELSE LET mid == (lo + hi + 1) \div 2
         IN  IF mid * mid * mid <= x THEN CbrtIn(x, mid, hi) ELSE CbrtIn(x, lo, mid - 1)

\* Math.cbrt on integers: the cube root truncated toward zero, odd in x.
\* 1290 is the largest integer whose cube fits the model's 32-bit integers.
Cbrt(x) == IF x >= 0 THEN CbrtIn(x, 0, 1290) ELSE -CbrtIn(-x, 0, 1290)

(***************************************************************************)
(* Non-finite doubles.  NaN stands for every value Number.isFinite         *)
(* rejects: NaN itself, and the NaN or +-Infinity a division by zero       *)
(* gives.  Arithmetic on a non-finite operand stays non-finite, and every  *)
(* comparison with it is false.                                            *)
(***************************************************************************)
NaN == -2000000000

IsFinite(x) == x # NaN

Add(a, b) == IF a = NaN \/ b = NaN THEN NaN ELSE a + b

Sub(a, b) == IF a = NaN \/ b = NaN THEN NaN ELSE a - b

Mul(a, b) == IF a = NaN \/ b = NaN THEN NaN ELSE a * b

\* a / b for b >= 0: x / 0 is NaN or +-Infinity.
Div(a, b) == IF a = NaN \/ b = NaN \/ b = 0 THEN NaN ELSE Quot(a, b)

Gt(a, b) == a # NaN /\ b # NaN /\ a > b

\* Math.max returns NaN when an argument is NaN.
MathMax(a, b) == IF a = NaN \/ b = NaN THEN NaN ELSE Max(a, b)

(***************************************************************************)
(* lib/kinematics: simplePathAtTime.  p is the argument object; the fields *)
(* targetLat, targetLon and lockToTarget a caller adds to it are not among *)
(* the parameters the function destructures and are never read.  The       *)
(* result is in thousandths of a degree; it is neither clamped nor         *)
(* normalised by this function.                                            *)
(***************************************************************************)
\* The rates with those of the tractor and the laser exchanged.
driftRate_tractorLaserSwapped(mitigation) ==
    CASE mitigation = "kinetic" -> [lat |-> 5, lon |-> 8]
      [] mitigation = "tractor" -> [lat |-> 7, lon |-> 2]
      [] mitigation = "laser"   -> [lat |-> 3, lon |-> 3]
      [] OTHER                  -> [lat |-> 0, lon |-> 0]

driftRate(mitigation) ==
    CASE mitigation = "kinetic" -> [lat |-> 5, lon |-> 8]
      [] mitigation = "tractor" -> [lat |-> 3, lon |-> 3]
      [] mitigation = "laser"   -> [lat |-> 7, lon |-> 2]
      [] OTHER                  -> [lat |-> 0, lon |-> 0]

\* simplePathAtTime with the activation test dropped: drift at every time.
simplePathAtTime_alwaysDrifts(p) ==
    LET baseLat == 40000
        baseLon == -100000
        apply == TRUE
        \* power = mitigationPower * tNorm, tNorm = tNum / max(1, leadTime)
        tNum == Sub(p.time, Sub(p.duration, p.leadTime))
        tDen == MathMax(1, p.leadTime)
        rate == driftRate(p.mitigation)
        \* percent * degrees -> thousandths of a degree: * 10
        driftLat == IF apply THEN Div(Mul(Mul(p.mitigationPower, tNum), rate.lat * 10), tDen) ELSE 0
        driftLon == IF apply THEN Div(Mul(Mul(p.mitigationPower, tNum), rate.lon * 10), tDen) ELSE 0
        \* angleBias * (time/duration) * 10, angleBias = (approachAngleDeg-45)/90
        biasLat == Div(Mul(Mul(Sub(p.approachAngleDeg, 45), p.time), 10000), Mul(90, p.duration))
        lat == Add(Add(baseLat, driftLat), biasLat)
        lon == Add(Add(baseLon, driftLon), Div(Mul(p.time, 20000), p.duration))
    IN  [impactLat |-> lat, impactLon |-> lon,
         eta |-> MathMax(0, Sub(p.duration, p.time))]

simplePathAtTime(p) ==
    LET baseLat == 40000
        baseLon == -100000
        apply == Gt(p.time, Sub(p.duration, MathMax(1, p.leadTime)))
        \* power = mitigationPower * tNorm, tNorm = tNum / max(1, leadTime)
        tNum == Sub(p.time, Sub(p.duration, p.leadTime))
        tDen == MathMax(1, p.leadTime)
        rate == driftRate(p.mitigation)
        \* percent * degrees -> thousandths of a degree: * 10
        driftLat == IF apply THEN Div(Mul(Mul(p.mitigationPower, tNum), rate.lat * 10), tDen) ELSE 0
        driftLon == IF apply THEN Div(Mul(Mul(p.mitigationPower, tNum), rate.lon * 10), tDen) ELSE 0
        \* angleBias * (time/duration) * 10, angleBias = (approachAngleDeg-45)/90
        biasLat == Div(Mul(Mul(Sub(p.approachAngleDeg, 45), p.time), 10000), Mul(90, p.duration))
        lat == Add(Add(baseLat, driftLat), biasLat)
        lon == Add(Add(baseLon, driftLon), Div(Mul(p.time, 20000), p.duration))
    IN  [impactLat |-> lat, impactLon |-> lon,
         eta |-> MathMax(0, Sub(p.duration, p.time))]

(***************************************************************************)
(* scene/Asteroid: clampLat and normLon (thousandths of a degree).         *)
(***************************************************************************)
clampLat(lat) == IF IsFinite(lat) THEN Max(-89999, Min(89999, lat)) ELSE 0

normLon(lon) ==
    IF ~IsFinite(lon) THEN 0
    ELSE JsRem(JsRem(lon, 360000) + 540000, 360000) - 180000

(***************************************************************************)
(* state/useSimStore: the hazard model.                                    *)
(***************************************************************************)
\* Energy in tenths of a megaton TNT.  The stages follow the source:
\*   vol   (4/3) pi r^3, r = size/2, in 10^3 m^3 (pi as 355/113)
\*   mass  density * vol, in 10^6 kg
\*   joules 0.5 * mass * v * v, v = speed * 1000 m/s, in 10^12 J
\*   result joules / 4.184e15, in tenths of a megaton
\* estimateEnergyMtTNT with the diameter fixed at the default 120 m.
estimateEnergyMtTNT_ignoresSize(size_m, density, speed_kms) ==
    LET vol == Quot(Quot(120 * 120 * 120, 1000) * 355, 678)
        mass == Quot(Quot(density, 100) * vol, 10)
        joules == Quot(mass * speed_kms * speed_kms, 2)
    IN  Quot(joules, 418)

\* estimateEnergyMtTNT without the 0.5 of the kinetic energy.
estimateEnergyMtTNT_noHalf(size_m, density, speed_kms) ==
    LET vol == Quot(Quot(size_m * size_m * size_m, 1000) * 355, 678)
        mass == Quot(Quot(density, 100) * vol, 10)
        joules == mass * speed_kms * speed_kms
    IN  Quot(joules, 418)

estimateEnergyMtTNT(size_m, density, speed_kms) ==
    LET vol == Quot(Quot(size_m * size_m * size_m, 1000) * 355, 678)
        mass == Quot(Quot(density, 100) * vol, 10)
        joules == Quot(mass * speed_kms * speed_kms, 2)
    IN  Quot(joules, 418)

\* The zustand set(partial): a shallow merge into the state.
set(st, partial) ==
    [k \in DOMAIN st |-> IF k \in DOMAIN partial THEN partial[k] ELSE st[k]]

\* n?.size ?? get().size
Pick(n, k, st) == IF k \in DOMAIN n THEN n[k] ELSE st[k]

recalcHazards(st, n) ==
    LET size == Pick(n, "size", st)
        speed == Pick(n, "speed", st)
        density == Pick(n, "density", st)
        E == estimateEnergyMtTNT(size, density, speed)
        blastKm == 800 + E * 5
        seismicKm == 400 + E * 2
        tsunamiKm == 1200 + E * 6
        craterKm == Quot(Cbrt(E * 100) * 12, 10)
        readouts == [speed |-> speed, size |-> size, density |-> density,
                     eta |-> st.duration - st.time,
                     energyTNT |-> E, craterKm |-> craterKm]
    IN  set(st, [blastKm |-> blastKm, seismicKm |-> seismicKm,
                 tsunamiKm |-> tsunamiKm, readouts |-> readouts])

\* No override: recalcHazards().
NoArg == [k \in {} |-> 0]

presets ==
    << [id |-> "tiny",  size |-> 40,  speed |-> 15, density |-> 2500],
       [id |-> "small", size |-> 120, speed |-> 18, density |-> 3000],
       [id |-> "med",   size |-> 350, speed |-> 25, density |-> 3000],
       [id |-> "large", size |-> 800, speed |-> 28, density |-> 3200],
       [id |-> "iron",  size |-> 200, speed |-> 30, density |-> 7800] >>

base ==
    [time |-> 0, duration |-> 120, running |-> FALSE,
     size |-> 120, speed |-> 18, density |-> 3000, approachAngle |-> 35,
     mitigation |-> "kinetic", mitigationPower |-> 50, leadTime |-> 15,
     impactLat |-> 10000, impactLon |-> 70000,
     blastKm |-> 0, seismicKm |-> 0, tsunamiKm |-> 0,
     mode |-> "scenario", selectedPresetId |-> "small",
     readouts |-> [speed |-> 0, size |-> 0, density |-> 0, eta |-> 0,
                   energyTNT |-> 0, craterKm |-> 0]]

\* The store as create() leaves it: base with the initial impact point, then
\* recalcHazards().
initialState ==
    LET initialImpact == simplePathAtTime(
            [time |-> base.duration, duration |-> base.duration,
             approachAngleDeg |-> base.approachAngle, leadTime |-> base.leadTime,
             mitigation |-> base.mitigation, mitigationPower |-> base.mitigationPower])
        b == set(base, [impactLat |-> initialImpact.impactLat,
                        impactLon |-> initialImpact.impactLon])
    IN  recalcHazards(b, NoArg)

(***************************************************************************)
(* state/useSimStore: the operations, as functions of the state st they    *)
(* find (get()) to the state they leave.                                   *)
(***************************************************************************)
\* tick without its early return on !running.
tick_ignoresRunning(st, dt) ==
    LET t == Min(st.duration, st.time + dt)
    IN  recalcHazards(set(st, [time |-> t]), NoArg)

\* tick with the sign of dt slipped.
tick_subtractsDt(st, dt) ==
    IF ~st.running THEN st
    ELSE LET t == Min(st.duration, st.time - dt)
         IN  recalcHazards(set(st, [time |-> t]), NoArg)

\* tick that clamps one second short of the duration.
tick_stopsShort(st, dt) ==
    IF ~st.running THEN st
    ELSE LET t == Min(st.duration - 1, st.time + dt)
         IN  recalcHazards(set(st, [time |-> t]), NoArg)

tick(st, dt) ==
    IF ~st.running THEN st
    ELSE LET t == Min(st.duration, st.time + dt)
         IN  recalcHazards(set(st, [time |-> t]), NoArg)

start(st) == set(st, [running |-> TRUE])

\* pause that also rewinds, as reset does.
pause_rewinds(st) == set(st, [running |-> FALSE, time |-> 0])

pause(st) == set(st, [running |-> FALSE])

reset(st) == set(st, [running |-> FALSE, time |-> 0])

\* presets.find(p => p.id === id): the index of the preset, 0 when absent.
findPreset(id) ==
    IF \E i \in 1..Len(presets) : presets[i].id = id
    THEN CHOOSE i \in 1..Len(presets) :
            /\ presets[i].id = id
            /\ \A j \in 1..(i - 1) : presets[j].id # id
    ELSE 0

\* selectPreset without its early return: an unknown id is stored.
selectPreset_storesUnknownId(st, id) ==
    LET i == findPreset(id)
    IN  IF i = 0 THEN set(st, [selectedPresetId |-> id])
        ELSE LET p == presets[i]
             IN  recalcHazards(
                    set(st, [selectedPresetId |-> id, size |-> p.size,
                             speed |-> p.speed, density |-> p.density]),
                    [size |-> p.size, speed |-> p.speed, density |-> p.density])

\* selectPreset that leaves the density of the preset out.
selectPreset_forgetsDensity(st, id) ==
    LET i == findPreset(id)
    IN  IF i = 0 THEN st
        ELSE LET p == presets[i]
             IN  recalcHazards(
                    set(st, [selectedPresetId |-> id, size |-> p.size,
                             speed |-> p.speed]),
                    [size |-> p.size, speed |-> p.speed])

selectPreset(st, id) ==
    LET i == findPreset(id)
    IN  IF i = 0 THEN st
        ELSE LET p == presets[i]
             IN  recalcHazards(
                    set(st, [selectedPresetId |-> id, size |-> p.size,
                             speed |-> p.speed, density |-> p.density]),
                    [size |-> p.size, speed |-> p.speed, density |-> p.density])

setImpactLatLon(st, lat, lon) == set(st, [impactLat |-> lat, impactLon |-> lon])

hit(st) == set(st, [time |-> 0, running |-> TRUE])

setMode(st, m) == set(st, [mode |-> m])

setRunning(st, v) == set(st, [running |-> v])

setTime(st, v) == set(st, [time |-> Max(0, Min(st.duration, v))])

setDuration(st, v) == set(st, [duration |-> Max(1, v)])

\* setSize without its recalcHazards call.
setSize_noRecalc(st, v) == set(st, [size |-> v])

setSize(st, v) == recalcHazards(set(st, [size |-> v]), [size |-> v])

\* setSpeed without its recalcHazards.
setSpeed_noRecalc(st, v) == set(st, [speed |-> v])

setSpeed(st, v) == recalcHazards(set(st, [speed |-> v]), [speed |-> v])

setDensity(st, v) == recalcHazards(set(st, [density |-> v]), [density |-> v])

setApproachAngle(st, v) == set(st, [approachAngle |-> v])

setMitigation(st, v) == set(st, [mitigation |-> v])

setMitigationPower(st, v) == set(st, [mitigationPower |-> v])

setLeadTime(st, v) == set(st, [leadTime |-> v])

toggleRun(st) == set(st, [running |-> ~st.running])

setParam(st, key, value) ==
    CASE key = "mitigation"      -> setMitigation(st, value)
      [] key = "size"            -> setSize(st, value)
      [] key = "speed"           -> setSpeed(st, value)
      [] key = "density"         -> setDensity(st, value)
      [] key = "approachAngle"   -> setApproachAngle(st, value)
      [] key = "mitigationPower" -> setMitigationPower(st, value)
      [] key = "leadTime"        -> setLeadTime(st, value)
      [] key = "duration"        -> setDuration(st, value)
      [] key = "time"            -> setTime(st, value)
      [] OTHER                   -> st

\* What a setParam call hands back to its caller: the function is typed
\* (key, value) => void, has no return and no throw, and its default case is
\* a bare break, so the caller gets undefined for every key.
setParamReturns(key) == "undefined"

\* The store operation a setParam call ends in.
setterOf(key) ==
    CASE key = "mitigation"      -> "setMitigation"
      [] key = "size"            -> "setSize"
      [] key = "speed"           -> "setSpeed"
      [] key = "density"         -> "setDensity"
      [] key = "approachAngle"   -> "setApproachAngle"
      [] key = "mitigationPower" -> "setMitigationPower"
      [] key = "leadTime"        -> "setLeadTime"
      [] key = "duration"        -> "setDuration"
      [] key = "time"            -> "setTime"
      [] OTHER                   -> "setParam"

(***************************************************************************)
(* What subscribers are handed.  zustand's set() notifies every listener   *)
(* synchronously with the merged state, once per call; an operation that   *)
(* calls set() and then recalcHazards(), which calls set() again,          *)
(* publishes two states.  Each operator gives the states one call          *)
(* publishes, in order; the last one is the state the operation returns    *)
(* in.                                                                     *)
(***************************************************************************)
tickPublishes(st, dt) ==
    IF ~st.running THEN << >>
    ELSE LET t == Min(st.duration, st.time + dt)
             written == set(st, [time |-> t])
         IN  << written, recalcHazards(written, NoArg) >>

selectPresetPublishes(st, id) ==
    LET i == findPreset(id)
    IN  IF i = 0 THEN << >>
        ELSE LET p == presets[i]
                 written == set(st, [selectedPresetId |-> id, size |-> p.size,
                                     speed |-> p.speed, density |-> p.density])
             IN  << written,
                    recalcHazards(written,
                       [size |-> p.size, speed |-> p.speed, density |-> p.density]) >>

setSizePublishes(st, v) ==
    LET written == set(st, [size |-> v])
    IN  << written, recalcHazards(written, [size |-> v]) >>

setSpeedPublishes(st, v) ==
    LET written == set(st, [speed |-> v])
    IN  << written, recalcHazards(written, [speed |-> v]) >>

setDensityPublishes(st, v) ==
    LET written == set(st, [density |-> v])
    IN  << written, recalcHazards(written, [density |-> v]) >>

(***************************************************************************)
(* scene/Asteroid: the frame callback.  It computes the impact point from  *)
(* the store's current values and writes it back with setImpactLatLon.     *)
(* The component re-renders on every store change, so the callback reads   *)
(* the store's current values.  The store has no targetLat, targetLon or   *)
(* useTargetImpact field: the three extra arguments are undefined, and     *)
(* simplePathAtTime does not read them.                                    *)
(***************************************************************************)
pathOf(st) ==
    simplePathAtTime(
        [time |-> st.time, duration |-> st.duration,
         approachAngleDeg |-> st.approachAngle, leadTime |-> st.leadTime,
         mitigation |-> st.mitigation, mitigationPower |-> st.mitigationPower])

\* The guard of the callback: both coordinates of the result are finite.
pathIsFinite(st) ==
    IsFinite(pathOf(st).impactLat) /\ IsFinite(pathOf(st).impactLon)

\* The callback without its guard: a bad result is clamped and stored.
useFrame_noGuard(st) ==
    LET res == pathOf(st)
    IN  setImpactLatLon(st, clampLat(res.impactLat), normLon(res.impactLon))

useFrame(st) ==
    LET res == pathOf(st)
        iLat == clampLat(res.impactLat)
        iLon == normLon(res.impactLon)
    IN  IF ~pathIsFinite(st) THEN st
        ELSE setImpactLatLon(st, iLat, iLon)

(***************************************************************************)
(* The inputs an exploration draws from: one set per argument.  Every      *)
(* specification below runs every operation; each widens the inputs of the *)
(* part of the store its claims are about and gives the other arguments    *)
(* one value.                                                              *)
(***************************************************************************)
ParamKeys == {"mitigation", "size", "speed", "density", "approachAngle",
              "mitigationPower", "leadTime", "duration", "time", "bogus"}

NarrowInputs ==
    [dt |-> {60}, time |-> {60}, duration |-> {120},
     size |-> {120}, speed |-> {18}, density |-> {3000},
     approachAngle |-> {35}, mitigation |-> {"kinetic"},
     mitigationPower |-> {50}, leadTime |-> {15},
     mode |-> {"scenario"}, id |-> {"small"}, key |-> ParamKeys]

\* Widen(I, J): the inputs I with the sets J names replaced.
Widen(I, J) == [k \in DOMAIN I |-> IF k \in DOMAIN J THEN J[k] ELSE I[k]]

\* The clock: negative, ordinary and huge frame times, scrubber positions
\* outside [0, duration], durations below and above the elapsed time.
TimeInputs ==
    Widen(NarrowInputs,
          [dt |-> {-60, 60, 1000}, time |-> {-60, 60, 1000},
           duration |-> {0, 60}])

\* The asteroid: sizes, speeds and densities in and out of their domains,
\* registered and unregistered presets.
HazardInputs ==
    Widen(NarrowInputs,
          [size |-> {-40, 0, 350}, speed |-> {-5, 25}, density |-> {0, 500},
           id |-> {"small", "iron", "none"}])

\* The trajectory: angles (a non-finite one among them), mitigation and lead
\* times in and out of their domains, with the Asteroid mounted or not.
TrajectoryInputs ==
    Widen(NarrowInputs,
          [approachAngle |-> {35, 120, NaN}, mitigation |-> {"kinetic", "laser"},
           mitigationPower |-> {50, 150}, leadTime |-> {0, 15},
           mode |-> {"scenario", "story"}])

ParamVals(I, key) ==
    CASE key = "mitigation"      -> I.mitigation
      [] key = "size"            -> I.size
      [] key = "speed"           -> I.speed
      [] key = "density"         -> I.density
      [] key = "approachAngle"   -> I.approachAngle
      [] key = "mitigationPower" -> I.mitigationPower
      [] key = "leadTime"        -> I.leadTime
      [] key = "duration"        -> I.duration
      [] key = "time"            -> I.time
      [] OTHER                   -> {0}

(***************************************************************************)
(* The state machine.  lastOp names the store operation that ran last; a   *)
(* setParam call is recorded as the setter it dispatched to, and a frame   *)
(* callback that returned at its guard as useFrame.  probe holds           *)
(* the arguments and the result of a direct call of one of the pure        *)
(* functions; the store's operations leave it alone.  ui holds the React   *)
(* state of the one component a specification is about (QuizMode,          *)
(* AsteroidViewer); no component is mounted in the specifications of the   *)
(* store and of the pure functions.                                        *)
(***************************************************************************)
NoProbe == [fn |-> "none"]

NoUi == [component |-> "none"]

Init ==
    /\ store = initialState
    /\ lastOp = "create"
    /\ probe = NoProbe
    /\ ui = NoUi

\* ControlPanel: the animation-frame loop calls tick(dt) on every frame.
Tick(dt) ==
    /\ store.time + dt >= -TimeFloor
    /\ store' = tick(store, dt)
    /\ lastOp' = "tick"

Start == store' = start(store) /\ lastOp' = "start"

Pause == store' = pause(store) /\ lastOp' = "pause"

Reset == store' = reset(store) /\ lastOp' = "reset"

SelectPreset(id) == store' = selectPreset(store, id) /\ lastOp' = "selectPreset"

Hit == store' = hit(store) /\ lastOp' = "hit"

SetMode(m) == store' = setMode(store, m) /\ lastOp' = "setMode"

ToggleRun == store' = toggleRun(store) /\ lastOp' = "toggleRun"

SetRunning(v) == store' = setRunning(store, v) /\ lastOp' = "setRunning"

SetParam(key, value) ==
    /\ store' = setParam(store, key, value)
    /\ lastOp' = setterOf(key)

\* App mounts <Asteroid /> only when mode is not 'story'.
Frame ==
    /\ store.mode # "story"
    /\ store' = useFrame(store)
    /\ lastOp' = IF pathIsFinite(store) THEN "setImpactLatLon" ELSE "useFrame"

NextOn(I) ==
    /\ \/ \E dt \in I.dt : Tick(dt)
       \/ Start
       \/ Pause
       \/ Reset
       \/ \E id \in I.id : SelectPreset(id)
       \/ Hit
       \/ \E m \in I.mode : SetMode(m)
       \/ ToggleRun
       \/ \E v \in BOOLEAN : SetRunning(v)
       \/ \E key \in I.key : \E value \in ParamVals(I, key) : SetParam(key, value)
       \/ Frame
    /\ UNCHANGED <<probe, ui>>

Next == NextOn(TimeInputs)

NextHazard == NextOn(HazardInputs)

NextTrajectory == NextOn(TrajectoryInputs)

Spec == Init /\ [][Next]_vars

SpecHazard == Init /\ [][NextHazard]_vars

SpecTrajectory == Init /\ [][NextTrajectory]_vars

(***************************************************************************)
(* Direct calls of simplePathAtTime.  The argument object is the one the   *)
(* Asteroid frame callback builds, target fields included, drawn from      *)
(* values in and out of the store's domains: a zero duration, a time past  *)
(* a shortened duration, lead times below 1.                               *)
(***************************************************************************)
PathArgs ==
    [time : {0, 60, 100, 110, 120}, duration : {0, 1, 120},
     approachAngleDeg : {35, 120}, leadTime : {0, 15},
     mitigation : {"kinetic", "tractor", "laser"},
     mitigationPower : {0, 50, 100},
     targetLat : {51500}, targetLon : {-100}, lockToTarget : BOOLEAN]

InitPath ==
    /\ store = initialState
    /\ lastOp = "create"
    /\ ui = NoUi
    /\ probe \in [fn : {"simplePathAtTime"}, arg : PathArgs]

CallPath ==
    /\ probe.fn = "simplePathAtTime"
    /\ "out" \notin DOMAIN probe
    /\ probe' = [fn |-> probe.fn, arg |-> probe.arg,
                 out |-> simplePathAtTime(probe.arg)]
    /\ UNCHANGED <<store, lastOp, ui>>

NextPath == CallPath

SpecPath == InitPath /\ [][NextPath]_vars

\* A call of simplePathAtTime has returned.
PathReturned == probe.fn = "simplePathAtTime" /\ "out" \in DOMAIN probe

(***************************************************************************)
(* Direct calls of recalcHazards on the initial store, for two sizes at    *)
(* one density and speed.  The sizes are those of the five presets, the    *)
(* densities and speeds span the presets' and the sliders' ranges.         *)
(***************************************************************************)
EnergyArgs ==
    [size1 : {40, 120, 200, 350, 800}, size2 : {40, 120, 200, 350, 800},
     density : {2500, 3000, 7800}, speed : {15, 18, 30}]

InitEnergy ==
    /\ store = initialState
    /\ lastOp = "create"
    /\ ui = NoUi
    /\ probe \in [fn : {"recalcHazards"}, arg : EnergyArgs]

CallHazards ==
    /\ probe.fn = "recalcHazards"
    /\ "out1" \notin DOMAIN probe
    /\ LET a == probe.arg
       IN  probe' = [fn |-> probe.fn, arg |-> a,
                     out1 |-> recalcHazards(initialState,
                                [size |-> a.size1, speed |-> a.speed, density |-> a.density]),
                     out2 |-> recalcHazards(initialState,
                                [size |-> a.size2, speed |-> a.speed, density |-> a.density])]
    /\ UNCHANGED <<store, lastOp, ui>>

NextEnergy == CallHazards

SpecEnergy == InitEnergy /\ [][NextEnergy]_vars

\* The two calls of recalcHazards have returned.
HazardsReturned == probe.fn = "recalcHazards" /\ "out1" \in DOMAIN probe

(***************************************************************************)
(* The clock (specification Spec).                                         *)
(***************************************************************************)

\* C1: in every reachable state elapsed time does not exceed duration,
\* whichever of tick, setTime, setDuration, hit, reset, setParam ran.
C1_TimeWithinDuration == store.time <= store.duration

\* C2: elapsed time is never below 0, also after tick with a negative dt.
C2_TimeNonNegative == store.time >= 0

\* C3: in every reachable state readouts.eta is max(0, duration - time) of
\* the current duration and time.
C3_EtaNeverStale == store.readouts.eta = Max(0, store.duration - store.time)

\* C4: reset() leaves time = 0, running = false, readouts.eta = duration, and
\* size, speed, density and their readout copies as they were.
C4_ResetContract ==
    [][Reset =>
        /\ store'.time = 0
        /\ ~store'.running
        /\ store'.readouts.eta = store'.duration
        /\ store'.size = store.size
        /\ store'.speed = store.speed
        /\ store'.density = store.density
        /\ store'.readouts.size = store.readouts.size
        /\ store'.readouts.speed = store.readouts.speed
        /\ store'.readouts.density = store.readouts.density]_vars

\* C6: tick(dt) while running is false changes no field of the store, for
\* every dt.
C6_TickWhileStoppedIsNoOp ==
    [][(~store.running /\ lastOp' = "tick") => store' = store]_vars

C6_Witness == lastOp = "tick" /\ ~store.running /\ store.time > 0

C5_ReadoutsFollowParameters ==
    LET E == estimateEnergyMtTNT(store.size, store.density, store.speed)
    IN  /\ store.readouts.size = store.size
        /\ store.readouts.speed = store.speed
        /\ store.readouts.density = store.density
        /\ store.readouts.energyTNT = E
        /\ store.readouts.craterKm = Quot(Cbrt(E * 100) * 12, 10)
        /\ store.blastKm = 800 + E * 5
        /\ store.seismicKm = 400 + E * 2
        /\ store.tsunamiKm = 1200 + E * 6

C5_Witness ==
    /\ lastOp = "setSize"
    /\ store.size = 350
    /\ store.readouts.size = 350
    /\ store.readouts.energyTNT > initialState.readouts.energyTNT

\* C8: setParam clamps out-of-range values, so every parameter is inside its
\* domain in every reachable state.
C8_ParametersInDomain ==
    /\ store.size > 0
    /\ store.speed > 0
    /\ store.density > 0
    /\ store.approachAngle >= 0 /\ store.approachAngle <= 90
    /\ store.mitigationPower >= 0 /\ store.mitigationPower <= 100
    /\ store.leadTime > 0

\* C9: energy, crater and the three hazard radii are never negative.
C9_HazardsNonNegative ==
    /\ store.readouts.energyTNT >= 0
    /\ store.readouts.craterKm >= 0
    /\ store.blastKm >= 0
    /\ store.seismicKm >= 0
    /\ store.tsunamiKm >= 0

(***************************************************************************)
(* The impact point (specification SpecTrajectory).                        *)
(***************************************************************************)

\* impactLat/impactLon are what the frame callback computes from the
\* store's current values.
ImpactIsCurrent ==
    /\ store.impactLat = clampLat(pathOf(store).impactLat)
    /\ store.impactLon = normLon(pathOf(store).impactLon)

\* C10: when setParam on mitigation, mitigationPower, leadTime,
\* approachAngle, time or duration returns, impactLat/impactLon are the
\* trajectory of the new values, before any frame callback or tick runs
\* (stated for calls made while the impact point was that of the old values).
C10_ImpactFollowsSetParam ==
    [][(/\ ImpactIsCurrent
        /\ lastOp' \in {"setMitigation", "setMitigationPower", "setLeadTime",
                        "setApproachAngle", "setTime", "setDuration"})
        => ImpactIsCurrent']_vars

(***************************************************************************)
(* C11: no torn snapshot.                                                  *)
(***************************************************************************)
\* The values recalcHazards derives.
Derived(st) == <<st.readouts, st.blastKm, st.seismicKm, st.tsunamiKm>>

\* The values they are derived from.
Sources(st) == <<st.time, st.size, st.speed, st.density>>

\* Snapshot s, published while an operation takes the store from old to new,
\* already holds the new time/size/speed/density and still the readouts and
\* radii computed from the old ones.
Torn(s, old, new) ==
    /\ Sources(s) = Sources(new)
    /\ Sources(new) # Sources(old)
    /\ Derived(s) = Derived(old)
    /\ Derived(new) # Derived(old)

NoneTorn(published, old) ==
    \A i \in DOMAIN published : ~Torn(published[i], old, published[Len(published)])

\* C11: on no store write made by tick, setSize, setSpeed, setDensity or
\* selectPreset is a subscriber handed a state in which time, size, speed or
\* density are the new ones while readouts and hazard radii are still those
\* of the old ones.
C11_NoTornSnapshot ==
    [][/\ \A dt \in HazardInputs.dt :
            (lastOp' = "tick" /\ store' = tick(store, dt))
                => NoneTorn(tickPublishes(store, dt), store)
       /\ \A id \in HazardInputs.id :
            (lastOp' = "selectPreset" /\ store' = selectPreset(store, id))
                => NoneTorn(selectPresetPublishes(store, id), store)
       /\ \A v \in HazardInputs.size :
            (lastOp' = "setSize" /\ store' = setSize(store, v))
                => NoneTorn(setSizePublishes(store, v), store)
       /\ \A v \in HazardInputs.speed :
            (lastOp' = "setSpeed" /\ store' = setSpeed(store, v))
                => NoneTorn(setSpeedPublishes(store, v), store)
       /\ \A v \in HazardInputs.density :
            (lastOp' = "setDensity" /\ store' = setDensity(store, v))
                => NoneTorn(setDensityPublishes(store, v), store)]_vars

(***************************************************************************)
(* C12: a locked target.                                                   *)
(***************************************************************************)
Abs(x) == IF x >= 0 THEN x ELSE -x

\* The largest drift section 4.2 documents for a call: mitigationPower times
\* the rate of the mitigation kind, per axis, in thousandths of a degree.
DriftTolerance(arg) ==
    [lat |-> Abs(arg.mitigationPower * driftRate(arg.mitigation).lat * 10),
     lon |-> Abs(arg.mitigationPower * driftRate(arg.mitigation).lon * 10)]

\* C12: with lockToTarget true, the impact point simplePathAtTime returns
\* for targetLat/targetLon is the target coordinate, up to the mitigation
\* drift, and not the default reference point.
C12_LockedTargetIsImpact ==
    (/\ PathReturned
     /\ probe.arg.lockToTarget
     /\ IsFinite(probe.out.impactLat) /\ IsFinite(probe.out.impactLon))
    => /\ Abs(probe.out.impactLat - probe.arg.targetLat) <= DriftTolerance(probe.arg).lat
       /\ Abs(probe.out.impactLon - probe.arg.targetLon) <= DriftTolerance(probe.arg).lon

\* C13: for every input, a zero duration included, simplePathAtTime returns
\* a finite impactLat in [-89.999, 89.999] and a finite impactLon in
\* [-180, 180).
C13_PathOutputInRange ==
    PathReturned =>
        /\ IsFinite(probe.out.impactLat)
        /\ IsFinite(probe.out.impactLon)
        /\ -89999 <= probe.out.impactLat /\ probe.out.impactLat <= 89999
        /\ -180000 <= probe.out.impactLon /\ probe.out.impactLon < 180000

(***************************************************************************)
(* C14: the stored impact point.                                           *)
(***************************************************************************)
ImpactInDomain(st) ==
    /\ IsFinite(st.impactLat) /\ -90000 <= st.impactLat /\ st.impactLat <= 90000
    /\ IsFinite(st.impactLon) /\ -180000 <= st.impactLon /\ st.impactLon < 180000

BeforeWindow(arg) == arg.time <= arg.duration - Max(1, arg.leadTime)

DriftOf(arg) ==
    LET with == simplePathAtTime(arg)
        without == simplePathAtTime([arg EXCEPT !.mitigationPower = 0])
    IN  [lat |-> with.impactLat - without.impactLat,
         lon |-> with.impactLon - without.impactLon]

\* The drift of section 4.2: mitigationPower * progress * rate, with
\* progress = clamp((time - activationStart) / max(1, leadTime), 0, 1) and
\* activationStart = duration - max(1, leadTime).
DocumentedDrift(arg) ==
    LET window == Max(1, arg.leadTime)
        activationStart == arg.duration - window
        elapsed == Max(0, Min(window, arg.time - activationStart))
        rate == driftRate(arg.mitigation)
    IN  [lat |-> Quot(arg.mitigationPower * elapsed * rate.lat * 10, window),
         lon |-> Quot(arg.mitigationPower * elapsed * rate.lon * 10, window)]

\* C16: for time > duration - max(1, leadTime) the drift is mitigationPower
\* times the progress (time - activationStart) / max(1, leadTime) clamped to
\* [0, 1], hence between 0 and mitigationPower times the rate, for every
\* leadTime, those below 1 included.
C16_DriftFollowsClampedProgress ==
    (/\ PathReturned
     /\ ~BeforeWindow(probe.arg)
     /\ IsFinite(probe.out.impactLat) /\ IsFinite(probe.out.impactLon))
    => DriftOf(probe.arg) = DocumentedDrift(probe.arg)

(***************************************************************************)
(* C17: selectPreset and the three setParam calls.                         *)
(***************************************************************************)
\* setParam('size'), setParam('speed'), setParam('density') for a preset.
threeSetParams(st, p) ==
    setParam(setParam(setParam(st, "size", p.size), "speed", p.speed),
             "density", p.density)

\* C17: selectPreset(id) for a registered id sets size, speed and density to
\* the preset's triple and selectedPresetId to id, writes once and
\* recomputes once, and ends in the size/speed/density, readouts and hazard
\* radii the three setParam calls for that triple end in.
C17_PresetIsBatchedSetParam ==
    [][\A id \in HazardInputs.id :
        (lastOp' = "selectPreset" /\ findPreset(id) # 0
            /\ store' = selectPreset(store, id))
        => LET p == presets[findPreset(id)]
               three == threeSetParams(store, p)
               published == selectPresetPublishes(store, id)
           IN  /\ <<store'.size, store'.speed, store'.density>>
                      = <<p.size, p.speed, p.density>>
               /\ store'.selectedPresetId = id
               /\ Len(published) = 2
               /\ published[2] = store'
               /\ Sources(store') = Sources(three)
               /\ Derived(store') = Derived(three)]_vars

\* The iron preset was selected.
C17_Witness ==
    /\ lastOp = "selectPreset"
    /\ store.selectedPresetId = "iron"
    /\ <<store.size, store.speed, store.density>> = <<200, 30, 7800>>
    /\ store.readouts.density = 7800

(***************************************************************************)
(* C18: monotonicity in the size.                                          *)
(***************************************************************************)
\* C18: at one positive density and speed, size1 < size2 gives a strictly
\* larger energy for size2, and blastKm, seismicKm, tsunamiKm and craterKm
\* for size2 at least those for size1.
C18_EnergyGrowsWithSize ==
    (/\ HazardsReturned
     /\ probe.arg.density > 0 /\ probe.arg.speed > 0
     /\ probe.arg.size1 < probe.arg.size2)
    => /\ probe.out1.readouts.energyTNT < probe.out2.readouts.energyTNT
       /\ probe.out1.blastKm <= probe.out2.blastKm
       /\ probe.out1.seismicKm <= probe.out2.seismicKm
       /\ probe.out1.tsunamiKm <= probe.out2.tsunamiKm
       /\ probe.out1.readouts.craterKm <= probe.out2.readouts.craterKm

\* The default body against the medium preset's size.
C18_Witness ==
    /\ HazardsReturned
    /\ probe.arg.size1 = 120 /\ probe.arg.size2 = 350
    /\ probe.arg.density = 3000 /\ probe.arg.speed = 18
    /\ probe.out1.readouts.energyTNT > 0
    /\ probe.out1.readouts.size = 120 /\ probe.out2.readouts.size = 350

(***************************************************************************)
(* C19: the energy of the default scenario.                                *)
(***************************************************************************)
\* recalcHazards was called for 120 m, 3000 kg/m3, 18 km/s.
DefaultScenarioComputed ==
    /\ HazardsReturned
    /\ probe.arg.size1 = base.size
    /\ probe.arg.density = base.density
    /\ probe.arg.speed = base.speed

\* C19: for size 120 m, density 3000 kg/m3 and speed 18 km/s the energy
\* formula gives about 0.0117 Mt TNT (4.9e13 J): less than a twentieth of a
\* megaton, 0 in tenths of a megaton.
C19_DefaultEnergyIsHundredthOfMt ==
    DefaultScenarioComputed => probe.out1.readouts.energyTNT = 0

\* C19, amended: for size 120 m, density 3000 kg/m3 and speed 18 km/s the
\* energy formula gives about 105 Mt TNT (4.4e17 J), to within 1 Mt.
C19_DefaultEnergyIsHundredMt ==
    DefaultScenarioComputed =>
        /\ 1041 <= probe.out1.readouts.energyTNT
        /\ probe.out1.readouts.energyTNT <= 1061

\* The default scenario was computed, against itself.
C19_Witness ==
    /\ DefaultScenarioComputed
    /\ probe.arg.size2 = probe.arg.size1
    /\ probe.out1.readouts.energyTNT = probe.out2.readouts.energyTNT

\* C20: the mode does not gate the computation of derived values: in every
\* mode, story included, the frame callback that recomputes the impact
\* coordinates after a time advance or a parameter change can run, as it
\* can in scenario mode.
C20_ModeDoesNotGateFrame == ENABLED Frame

(***************************************************************************)
(* C21: the run flag.                                                      *)
(***************************************************************************)
\* C21: start, pause and toggleRun change the running flag and nothing
\* else (time, duration, parameters, readouts, radii and impact point are
\* kept): start gives running = TRUE, pause running = FALSE, toggleRun the
\* negation of running.
C21_RunFlagOnly ==
    [][/\ lastOp' = "start" => store' = [store EXCEPT !.running = TRUE]
       /\ lastOp' = "pause" => store' = [store EXCEPT !.running = FALSE]
       /\ lastOp' = "toggleRun"
            => store' = [store EXCEPT !.running = ~store.running]]_vars

\* The run was paused part of the way.
C21_Witness ==
    /\ lastOp = "pause"
    /\ ~store.running
    /\ store.time > 0

\* C22: setParam with a name that is not a known parameter is rejected with
\* an error result to the caller and leaves the whole store unchanged.
C22_UnknownParamRejected ==
    [][\A key \in ParamKeys :
        (setterOf(key) = "setParam" /\ lastOp' = "setParam")
            => /\ store' = store
               /\ setParamReturns(key) = "error"]_vars

(***************************************************************************)
(* C23: the order of the mitigation kinds.                                 *)
(***************************************************************************)
\* Latitude plus longitude drift of the call, had its kind been m.
TotalDrift(arg, m) ==
    LET d == DriftOf([arg EXCEPT !.mitigation = m])
    IN  Abs(d.lat) + Abs(d.lon)

\* The call is inside its window with a positive power and progress.
Drifting(arg) ==
    /\ ~BeforeWindow(arg)
    /\ arg.duration > 0
    /\ arg.mitigationPower > 0
    /\ arg.time - (arg.duration - arg.leadTime) > 0

\* C23: at one mitigationPower and one progress, both positive, the total
\* drift (latitude plus longitude) of kinetic exceeds that of laser, which
\* exceeds that of tractor.
C23_KineticLaserTractor ==
    (PathReturned /\ Drifting(probe.arg)) =>
        /\ TotalDrift(probe.arg, "kinetic") > TotalDrift(probe.arg, "laser")
        /\ TotalDrift(probe.arg, "laser") > TotalDrift(probe.arg, "tractor")

\* A half-power tractor call five seconds into a 15 s window.
C23_Witness ==
    /\ PathReturned
    /\ Drifting(probe.arg)
    /\ probe.arg.mitigation = "tractor" /\ probe.arg.mitigationPower = 50
    /\ probe.arg.time = 110 /\ probe.arg.duration = 120 /\ probe.arg.leadTime = 15
    /\ probe.out.impactLon > -100000 + Quot(110 * 20000, 120)

(***************************************************************************)
(* App: latestRelevantApproach.  A close-approach entry is a record with   *)
(* its close_approach_date, a day number, and its miss distance, which     *)
(* tells entries of one date apart.  list.given is FALSE for an undefined  *)
(* array.  reference is reference.getTime(), in milliseconds.              *)
(***************************************************************************)
Null == [null |-> TRUE]

MsPerDay == 86400000

\* Date.parse(d + 'T00:00:00Z'): UTC midnight of the day, in milliseconds.
toTime(d) == d * MsPerDay

\* The for loop from entry i on; best holds bestPast and bestFuture.
RECURSIVE scanApproaches(_, _, _, _)
scanApproaches(arr, i, refTime, best) ==
    IF i > Len(arr) THEN best
    ELSE LET ca == arr[i]
             t == toTime(ca.close_approach_date)
             next ==
                IF t <= refTime
                THEN IF best.bestPast = Null \/ t > best.bestPast.time
                     THEN [best EXCEPT !.bestPast = [item |-> ca, time |-> t]]
                     ELSE best
                ELSE IF best.bestFuture = Null \/ t < best.bestFuture.time
                     THEN [best EXCEPT !.bestFuture = [item |-> ca, time |-> t]]
                     ELSE best
         IN  scanApproaches(arr, i + 1, refTime, next)

\* latestRelevantApproach that prefers the earliest future approach.
latestRelevantApproach_futureFirst(list, reference) ==
    IF ~list.given \/ Len(list.arr) = 0 THEN Null
    ELSE LET best == scanApproaches(list.arr, 1, reference,
                                    [bestPast |-> Null, bestFuture |-> Null])
         IN  IF best.bestFuture # Null THEN best.bestFuture.item
             ELSE IF best.bestPast # Null THEN best.bestPast.item
             ELSE Null

latestRelevantApproach(list, reference) ==
    IF ~list.given \/ Len(list.arr) = 0 THEN Null
    ELSE LET best == scanApproaches(list.arr, 1, reference,
                                    [bestPast |-> Null, bestFuture |-> Null])
         IN  IF best.bestPast # Null THEN best.bestPast.item
             ELSE IF best.bestFuture # Null THEN best.bestFuture.item
             ELSE Null

\* Up to MaxApproaches entries over four days, and an undefined array; a
\* reference before every date, at the midnight of day 2, just past it, and
\* after every date.
MaxApproaches == 3

ApproachEntries == [close_approach_date : 1..4, miss : {1, 2}]

ApproachLists ==
    {[given |-> FALSE, arr |-> << >>]}
        \cup {[given |-> TRUE, arr |-> a] :
                a \in UNION {[1..n -> ApproachEntries] : n \in 0..MaxApproaches}}

ApproachReferences == {0, toTime(2), toTime(2) + 1, toTime(5)}

InitApproach ==
    /\ store = initialState
    /\ lastOp = "create"
    /\ ui = NoUi
    /\ probe \in [fn : {"latestRelevantApproach"},
                   arg : [list : ApproachLists, reference : ApproachReferences]]

CallApproach ==
    /\ probe.fn = "latestRelevantApproach"
    /\ "out" \notin DOMAIN probe
    /\ probe' = [fn |-> probe.fn, arg |-> probe.arg,
                 out |-> latestRelevantApproach(probe.arg.list, probe.arg.reference)]
    /\ UNCHANGED <<store, lastOp, ui>>

NextApproach == CallApproach

SpecApproach == InitApproach /\ [][NextApproach]_vars

\* A call of latestRelevantApproach has returned.
ApproachReturned == probe.fn = "latestRelevantApproach" /\ "out" \in DOMAIN probe

\* The entries of the list.
EntriesOf(list) == {list.arr[i] : i \in DOMAIN list.arr}

\* C24: latestRelevantApproach returns the entry of the greatest date at or
\* before the reference when there is one, otherwise the entry of the
\* smallest date after the reference, and null only for a missing or empty
\* list.
C24_LatestRelevantApproach ==
    ApproachReturned =>
        LET list == probe.arg.list
            ref == probe.arg.reference
            out == probe.out
            past == {e \in EntriesOf(list) : toTime(e.close_approach_date) <= ref}
        IN  /\ out = Null <=> (~list.given \/ list.arr = << >>)
            /\ past # {} =>
                  /\ out \in past
                  /\ \A e \in past : e.close_approach_date <= out.close_approach_date
            /\ (past = {} /\ EntriesOf(list) # {}) =>
                  /\ out \in EntriesOf(list)
                  /\ \A e \in EntriesOf(list) :
                        e.close_approach_date >= out.close_approach_date

\* Three entries, past and future ones among them, the future one first.
C24_Witness ==
    /\ ApproachReturned
    /\ Len(probe.arg.list.arr) = 3
    /\ probe.arg.reference = toTime(2) + 1
    /\ probe.arg.list.arr[1].close_approach_date = 4
    /\ probe.arg.list.arr[2].close_approach_date = 1
    /\ probe.arg.list.arr[3].close_approach_date = 2
    /\ probe.out = probe.arg.list.arr[3]

(***************************************************************************)
(* modes/QuizMode, in its two versions: the static one (three fixed        *)
(* questions, picked starts as [-1, -1, -1]) and the dynamic one (picked   *)
(* starts as [] and an effect on QUESTIONS.length, which is always 3,      *)
(* fills it after the first render).  ui.picked is the array, 1-based;     *)
(* Undefined is what a hole of the array reads as.  An effect runs some    *)
(* time after the render that scheduled it, so a click may come first.     *)
(***************************************************************************)
QuestionCount == 3

ChoiceCount == 4

NoPick == -1

Undefined == -2

\* Array(n).fill(v)
fill(n, v) == [i \in 1..n |-> v]

\* arr.includes(v)
includes(arr, v) == \E i \in DOMAIN arr : arr[i] = v

\* const copy = [...prev]; copy[qi] = ci; return copy  (qi counts from 0)
assignAt(prev, qi, ci) ==
    [i \in 1..Max(Len(prev), qi + 1) |->
        IF i = qi + 1 THEN ci
        ELSE IF i <= Len(prev) THEN prev[i] ELSE Undefined]

QuizMounted ==
    { [component |-> "QuizMode", variant |-> "static",
       picked |-> fill(QuestionCount, NoPick), submitted |-> FALSE,
       effectPending |-> FALSE],
      [component |-> "QuizMode", variant |-> "dynamic",
       picked |-> << >>, submitted |-> FALSE,
       effectPending |-> TRUE] }

InitQuiz ==
    /\ store = initialState
    /\ lastOp = "create"
    /\ probe = NoProbe
    /\ ui \in QuizMounted

\* useEffect(() => setPicked(prev => prev.length === QUESTIONS.length ? prev
\*                                   : Array(QUESTIONS.length).fill(-1)))
RunPickedEffect ==
    /\ ui.component = "QuizMode"
    /\ ui.effectPending
    /\ ui' = [ui EXCEPT !.effectPending = FALSE,
                        !.picked = IF Len(ui.picked) = QuestionCount THEN ui.picked
                                   ELSE fill(QuestionCount, NoPick)]
    /\ UNCHANGED <<store, lastOp, probe>>

\* The onClick of choice ci of question qi.
ClickChoice(qi, ci) ==
    /\ ui.component = "QuizMode"
    /\ ui' = IF ui.submitted THEN ui
             ELSE [ui EXCEPT !.picked = assignAt(ui.picked, qi, ci)]
    /\ UNCHANGED <<store, lastOp, probe>>

\* Submit is rendered while not submitted, disabled while picked.includes(-1).
ClickSubmit ==
    /\ ui.component = "QuizMode"
    /\ ~ui.submitted
    /\ ~includes(ui.picked, NoPick)
    /\ ui' = [ui EXCEPT !.submitted = TRUE]
    /\ UNCHANGED <<store, lastOp, probe>>

\* Retry and Resume Impact are rendered while submitted.
ClickRetry ==
    /\ ui.component = "QuizMode"
    /\ ui.submitted
    /\ ui' = [ui EXCEPT !.submitted = FALSE,
                        !.picked = fill(QuestionCount, NoPick)]
    /\ UNCHANGED <<store, lastOp, probe>>

\* The click calls the store's resumeFromQuiz; what that does to the store
\* is not modelled.
ClickResume ==
    /\ ui.component = "QuizMode"
    /\ ui.submitted
    /\ lastOp' = "resumeFromQuiz"
    /\ UNCHANGED <<store, probe, ui>>

NextQuiz ==
    \/ RunPickedEffect
    \/ \E qi \in 0..(QuestionCount - 1) : \E ci \in 0..(ChoiceCount - 1) : ClickChoice(qi, ci)
    \/ ClickSubmit
    \/ ClickRetry
    \/ ClickResume

SpecQuiz == InitQuiz /\ [][NextQuiz]_vars

\* Every question has a pick.
PicksComplete(picked) ==
    /\ Len(picked) = QuestionCount
    /\ \A i \in DOMAIN picked : picked[i] \in 0..(ChoiceCount - 1)

\* C25: resumeFromQuiz is invoked only from the submitted state; the
\* submitted state holds only when picked has one entry per question and
\* none of them is -1; while submitted, the picks do not change.
C25_QuizGate ==
    /\ [](ui.submitted => PicksComplete(ui.picked))
    /\ [][(lastOp' = "resumeFromQuiz" /\ lastOp # "resumeFromQuiz") => ui.submitted]_vars
    /\ [][(ui.submitted /\ ui'.submitted) => ui'.picked = ui.picked]_vars

(***************************************************************************)
(* ui/nasaPanel: AsteroidViewer, with the two fetch functions it reaches.  *)
(* response is what the network gives a request: "ok", "notOk" (a status   *)
(* outside 200..299) or "networkError" (fetch rejects).  A string state    *)
(* that is null holds "null".  ui.passed lists the arguments of the calls  *)
(* of the store's setNasaAsteroidData, whose effect on the store is not    *)
(* modelled.                                                               *)
(***************************************************************************)
Responses == {"ok", "notOk", "networkError"}

AsteroidIds == {"3542519", "2000433"}

\* fetchAsteroidDetails: throws unless the response is ok.
fetchAsteroidDetails(asteroidId, response) ==
    IF response = "ok" THEN [threw |-> FALSE, detail |-> [id |-> asteroidId]]
    ELSE [threw |-> TRUE]

\* processAsteroidData, as far as the identity of the asteroid goes.
processAsteroidData(detail) == [basicInfo |-> [id |-> detail.id]]

\* getAsteroidInfoById: try { ... } catch { return null }; it never throws.
getAsteroidInfoById(asteroidId, response) ==
    LET r == fetchAsteroidDetails(asteroidId, response)
    IN  IF r.threw THEN [threw |-> FALSE, value |-> Null]
        ELSE [threw |-> FALSE, value |-> processAsteroidData(r.detail)]

\* onSearch is explored for at most MaxSearches calls.
MaxSearches == 3

\* The component once its mount effect has started the preload.
InitSearch ==
    /\ store = initialState
    /\ lastOp = "create"
    /\ probe = NoProbe
    /\ ui = [component |-> "AsteroidViewer", list |-> {}, selectedId |-> "",
             info |-> Null, loading |-> TRUE, error |-> "null",
             preload |-> "awaiting", search |-> "idle", searchId |-> "",
             response |-> "none", passed |-> << >>]

\* The preload of the mount effect settles.
PreloadSettles(response, items) ==
    /\ ui.component = "AsteroidViewer"
    /\ ui.preload = "awaiting"
    /\ ui' = [ui EXCEPT !.preload = "done",
                        !.list = IF response = "ok" THEN items ELSE @,
                        !.error = IF response = "ok" THEN @
                                  ELSE "Failed to load asteroid list.",
                        !.loading = FALSE]
    /\ UNCHANGED <<store, lastOp, probe>>

\* The select's onChange; the select is disabled while loading or empty.
ChangeSelection(id) ==
    /\ ui.component = "AsteroidViewer"
    /\ ~ui.loading /\ ui.list # {}
    /\ id \in ui.list
    /\ ui' = [ui EXCEPT !.selectedId = id]
    /\ UNCHANGED <<store, lastOp, probe>>

\* onSearch up to its await; Search is disabled while loading or with no
\* selection.
ClickSearch ==
    /\ ui.component = "AsteroidViewer"
    /\ ~ui.loading /\ ui.selectedId # ""
    /\ Len(ui.passed) < MaxSearches
    /\ ui' = [ui EXCEPT !.loading = TRUE, !.error = "null",
                        !.search = "awaiting", !.searchId = ui.selectedId]
    /\ UNCHANGED <<store, lastOp, probe>>

\* onSearch from its await on: the try block, its catch (entered only if
\* the awaited call throws) and its finally.
SearchSettles(response) ==
    /\ ui.component = "AsteroidViewer"
    /\ ui.search = "awaiting"
    /\ LET details == getAsteroidInfoById(ui.searchId, response)
       IN  IF details.threw
           THEN /\ ui' = [ui EXCEPT !.search = "idle", !.response = response,
                                    !.error = "Failed to fetch asteroid details.",
                                    !.loading = FALSE]
                /\ UNCHANGED lastOp
           ELSE /\ ui' = [ui EXCEPT !.search = "idle", !.response = response,
                                    !.info = details.value,
                                    !.passed = Append(@, details.value),
                                    !.loading = FALSE]
                /\ lastOp' = "setNasaAsteroidData"
    /\ UNCHANGED <<store, probe>>

NextSearch ==
    \/ \E response \in Responses : \E items \in {{}, AsteroidIds} :
            PreloadSettles(response, items)
    \/ \E id \in AsteroidIds : ChangeSelection(id)
    \/ ClickSearch
    \/ \E response \in Responses : SearchSettles(response)

SpecSearch == InitSearch /\ [][NextSearch]_vars

\* C26: when the fetch of the details fails (network error or non-OK
\* response), onSearch ends with error = 'Failed to fetch asteroid
\* details.', loading false, and nothing passed to the store.
C26_FailedSearchReported ==
    [][(/\ ui.search = "awaiting" /\ ui'.search = "idle"
        /\ ui'.response \in {"notOk", "networkError"})
        => /\ ui'.error = "Failed to fetch asteroid details."
           /\ ~ui'.loading
           /\ ui'.passed = ui.passed]_vars

(***************************************************************************)
(* C27: unknown presets.                                                   *)
(***************************************************************************)
PresetIds == {presets[i].id : i \in DOMAIN presets}

\* C27: in every state selectedPresetId names a preset of the registry, and
\* selectPreset with an id outside the registry returns the store as it
\* is.
C27_UnknownPresetIgnored ==
    /\ store.selectedPresetId \in PresetIds
    /\ \A id \in HazardInputs.id \ PresetIds : selectPreset(store, id) = store

\* selectPreset ran on a store whose size was set by hand and left it so:
\* the id was none of the registry's.
C27_Witness ==
    /\ lastOp = "selectPreset"
    /\ store.size = 350
    /\ store.selectedPresetId = "small"
    /\ HazardInputs.id \ PresetIds # {}

(***************************************************************************)
(* A run left to the frame driver: the simulation has been started, on the *)
(* default duration or a shortened one, and the ControlPanel loop calls    *)
(* tick with the time since the last frame, which is positive, on every    *)
(* animation frame, for as long as the page is shown.                      *)
(***************************************************************************)
RunDurations == {45, 120}

RunSteps == {1, 16}

InitRun ==
    /\ store \in {start(setDuration(initialState, d)) : d \in RunDurations}
    /\ lastOp = "start"
    /\ probe = NoProbe
    /\ ui = NoUi

NextRun == (\E dt \in RunSteps : Tick(dt)) /\ UNCHANGED <<probe, ui>>

SpecRun == InitRun /\ [][NextRun]_vars /\ WF_vars(NextRun)

\* C28: with running true and tick called again and again with a positive
\* dt, time comes to equal duration and stays there on every later tick,
\* and running stays true.
C28_RunReachesDuration ==
    <>[](store.time = store.duration /\ store.running)

\* The driver has brought the default run to its end.
C28_Witness ==
    /\ lastOp = "tick"
    /\ store.running
    /\ store.duration = 120
    /\ store.time = store.duration
    /\ store.readouts.eta = 0

(***************************************************************************)
(* C29: setters and tick commute.                                          *)
(***************************************************************************)
\* C29: from every state, setSize(v), setSpeed(v) or setDensity(v) followed
\* by tick(dt) ends in the store state that tick(dt) followed by the same
\* setter ends in.
C29_SetterTickCommute ==
    \A dt \in HazardInputs.dt \cup TimeInputs.dt :
        /\ \A v \in HazardInputs.size :
              tick(setSize(store, v), dt) = setSize(tick(store, dt), v)
        /\ \A v \in HazardInputs.speed :
              tick(setSpeed(store, v), dt) = setSpeed(tick(store, dt), v)
        /\ \A v \in HazardInputs.density :
              tick(setDensity(store, v), dt) = setDensity(tick(store, dt), v)

\* A running store took setSize(350) and then a tick of 60 s.
C29_Witness ==
    /\ lastOp = "tick"
    /\ store.running
    /\ store.time = 60
    /\ store.size = 350
    /\ store = tick(setSize([store EXCEPT !.time = 0], 350), 60)

(***************************************************************************)
(* modes/QuizMode (dynamic): the assessment effect.  Each run of the       *)
(* effect has its own alive flag, which its cleanup clears; ui.runs lists  *)
(* the runs in the order they started, each with the impact location it    *)
(* captured (input) and the await it is suspended at: "tsunami"            *)
(* (assessTsunami), "density" (assessPopulationDensity), then "done", or   *)
(* "dropped" when it returned at an alive test.  A question records the    *)
(* run that set it.  React runs the cleanup of the previous run before a   *)
(* new run, and the cleanup of the last run at unmount.                    *)
(***************************************************************************)
MaxRuns == 3

ImpactLocations == {1, 2}

\* let alive = true; (async () => { ... await assessTsunami(...)
startRun(u, location) ==
    [u EXCEPT !.runs = Append(@, [alive |-> TRUE, at |-> "tsunami", input |-> location])]

\* return () => { alive = false }, of the latest run
cleanup(u) ==
    [u EXCEPT !.runs = [i \in DOMAIN @ |->
                          IF i = Len(@) THEN [@[i] EXCEPT !.alive = FALSE] ELSE @[i]]]

\* After await assessTsunami without the alive test.
afterTsunami_ignoresAlive(u, r) ==
    [u EXCEPT !.tsunamiQ = [from |-> r, input |-> u.runs[r].input, fallback |-> FALSE],
              !.runs[r].at = "density"]

\* After await assessTsunami: if (!alive) return; setTsunamiQ(...); then
\* up to await assessPopulationDensity.
afterTsunami(u, r) ==
    IF ~u.runs[r].alive THEN [u EXCEPT !.runs[r].at = "dropped"]
    ELSE [u EXCEPT !.tsunamiQ = [from |-> r, input |-> u.runs[r].input, fallback |-> FALSE],
                   !.runs[r].at = "density"]

\* After await assessPopulationDensity: if (!alive) return; ...;
\* if (!alive) return; setCasualtyQ(...).
afterDensity(u, r) ==
    IF ~u.runs[r].alive THEN [u EXCEPT !.runs[r].at = "dropped"]
    ELSE [u EXCEPT !.casualtyQ = [from |-> r, input |-> u.runs[r].input, fallback |-> FALSE],
                   !.runs[r].at = "done"]

\* catch { if (!alive) return; setTsunamiQ(fallback); setCasualtyQ(fallback) }
afterRejection(u, r) ==
    IF ~u.runs[r].alive THEN [u EXCEPT !.runs[r].at = "dropped"]
    ELSE [u EXCEPT !.tsunamiQ = [from |-> r, input |-> u.runs[r].input, fallback |-> TRUE],
                   !.casualtyQ = [from |-> r, input |-> u.runs[r].input, fallback |-> TRUE],
                   !.runs[r].at = "done"]

\* The component after its first render and the first run of the effect.
InitAssess ==
    /\ store = initialState
    /\ lastOp = "create"
    /\ probe = NoProbe
    /\ \E location \in ImpactLocations :
          ui = startRun([component |-> "QuizMode", mounted |-> TRUE,
                         location |-> location, runs |-> << >>,
                         tsunamiQ |-> Null, casualtyQ |-> Null], location)

\* impactLat, impactLon or the readouts change: cleanup, then a new run.
DepsChange(location) ==
    /\ ui.component = "QuizMode" /\ ui.mounted
    /\ location # ui.location
    /\ Len(ui.runs) < MaxRuns
    /\ ui' = startRun([cleanup(ui) EXCEPT !.location = location], location)
    /\ UNCHANGED <<store, lastOp, probe>>

Unmount ==
    /\ ui.component = "QuizMode" /\ ui.mounted
    /\ ui' = [cleanup(ui) EXCEPT !.mounted = FALSE]
    /\ UNCHANGED <<store, lastOp, probe>>

TsunamiResolves(r) ==
    /\ ui.component = "QuizMode"
    /\ ui.runs[r].at = "tsunami"
    /\ ui' = afterTsunami(ui, r)
    /\ UNCHANGED <<store, lastOp, probe>>

DensityResolves(r) ==
    /\ ui.component = "QuizMode"
    /\ ui.runs[r].at = "density"
    /\ ui' = afterDensity(ui, r)
    /\ UNCHANGED <<store, lastOp, probe>>

AssessmentRejects(r) ==
    /\ ui.component = "QuizMode"
    /\ ui.runs[r].at \in {"tsunami", "density"}
    /\ ui' = afterRejection(ui, r)
    /\ UNCHANGED <<store, lastOp, probe>>

NextAssess ==
    \/ \E location \in ImpactLocations : DepsChange(location)
    \/ Unmount
    \/ \E r \in DOMAIN ui.runs : TsunamiResolves(r)
    \/ \E r \in DOMAIN ui.runs : DensityResolves(r)
    \/ \E r \in DOMAIN ui.runs : AssessmentRejects(r)

SpecAssess == InitAssess /\ [][NextAssess]_vars

\* C30: the tsunami and the casualty question are set only by the latest
\* run of the effect, while the component is mounted, and from the impact
\* location of that run: a result of an earlier run, or one that arrives
\* after unmount, sets neither, whatever the order of resolution.
C30_OnlyLatestRunApplies ==
    [][/\ ui'.tsunamiQ # ui.tsunamiQ =>
            /\ ui.mounted
            /\ ui'.tsunamiQ.from = Len(ui.runs)
            /\ ui'.tsunamiQ.input = ui.location
       /\ ui'.casualtyQ # ui.casualtyQ =>
            /\ ui.mounted
            /\ ui'.casualtyQ.from = Len(ui.runs)
            /\ ui'.casualtyQ.input = ui.location]_vars

\* The first run resolved after the second had started and was dropped;
\* the second set the tsunami question.
C30_Witness ==
    /\ ui.component = "QuizMode"
    /\ Len(ui.runs) = 2
    /\ ui.runs[1].at = "dropped"
    /\ ui.tsunamiQ # Null
    /\ ui.tsunamiQ.from = 2

====
